---- MODULE Spec2Model ----
(***************************************************************************)
(* Model of cad/bushing.py: the BushingSpec dataclass, make_bushing and    *)
(* the batch driver make_many_bushings.                                    *)
(*                                                                         *)
(* Lengths are integers in tenths of a model unit (6.4 is 64, 0.6 is 6).   *)
(* The inputs are even numbers of tenths, so that every "/ 2" of the code  *)
(* is exact, as it is in the code's arithmetic.                            *)
(* A string is a sequence of one-character strings.                        *)
(***************************************************************************)
EXTENDS Integers, Sequences, FiniteSets, TLC

VARIABLES bushing_list, i, pc, spec, part, trace, files, err, arg, ret

vars == <<bushing_list, i, pc, spec, part, trace, files, err, arg, ret>>

(* ---------------------------------------------------------------- bounds *)

\* Longest batch of override objects.
MaxBatch == 2

\* Longest raw label of the label-layout specification.
MaxLabelLen == 2

(* ------------------------------------------------------ program constants *)

\* flag_length = max_text_width + 2
FlagPad == 20

\* .translate((0, 0.6)) and .translate((0, -0.6)) of the two text outlines
TextGap == 6

\* .translate((0, i * spec.bushing_od + 5, 0))
BatchGap == 50

NoSpec == [none |-> "spec"]
NoPart == [none |-> "part"]
NoError == [none |-> "error"]
NoValue == [none |-> "value"]

(* ------------------------------------------------------------ BushingSpec *)

\* The dataclass defaults; bushing_length has none.
Defaults ==
  [bushing_id |-> 32, bushing_od |-> 64, bushing_each_time |-> 4,
   flag_thickness |-> 28, flag_length |-> 150, flag_height |-> 120,
   text_font_size |-> 50, text_thickness |-> 10,
   flag_stem_length_radial |-> 40, flag_stem_od |-> 35,
   text_top |-> <<>>, text_bottom |-> <<>>]

RequiredFields == {"bushing_length"}

FieldNames == DOMAIN Defaults \cup RequiredFields

\* The generated keyword-only __init__ raises TypeError for an unknown
\* keyword and for a missing field that has no default.
BindsAllFields(overrides) ==
  /\ DOMAIN overrides \subseteq FieldNames
  /\ RequiredFields \subseteq DOMAIN overrides

\* The generated __init__: every field from the keyword, else the default.
NewSpec(overrides) ==
  [f \in FieldNames |->
     IF f \in DOMAIN overrides THEN overrides[f] ELSE Defaults[f]]

\* __post_init__ with the comparisons made non-strict: equal diameters pass.
PostInitNonStrict(self) ==
  IF ~(self.bushing_od >= self.bushing_id)
  THEN [kind |-> "AssertionError", raised_in |-> "__post_init__",
        msg |-> <<"OD", self.bushing_od, "<", "ID", self.bushing_id>>]
  ELSE IF ~(self.flag_stem_od <= self.bushing_od)
  THEN [kind |-> "AssertionError", raised_in |-> "__post_init__",
        msg |-> <<"Flag stem OD", self.flag_stem_od, ">",
                  "Bushing OD", self.bushing_od>>]
  ELSE NoError

\* __post_init__: the first failing assert, with its message, or NoError.
PostInit(self) ==
  IF ~(self.bushing_od > self.bushing_id)
  THEN [kind |-> "AssertionError", raised_in |-> "__post_init__",
        msg |-> <<"OD", self.bushing_od, "<", "ID", self.bushing_id>>]
  ELSE IF ~(self.flag_stem_od < self.bushing_od)
  THEN [kind |-> "AssertionError", raised_in |-> "__post_init__",
        msg |-> <<"Flag stem OD", self.flag_stem_od, ">",
                  "Bushing OD", self.bushing_od>>]
  ELSE NoError

(* ------------------------------------------------------------ label layout *)

ConnectorAfter == <<" ", "t", "o">>
ConnectorBefore == <<"t", "o", " ">>

\* The layout with the tie given to the bottom label (< for <=).
LabelLayoutTieToBottom(label_top, label_bottom) ==
  IF Len(label_top) < Len(label_bottom)
  THEN <<label_top \o ConnectorAfter, label_bottom>>
  ELSE <<label_top, ConnectorBefore \o label_bottom>>

\* Lines 57-62: which label gets the connector.
LabelLayout(label_top, label_bottom) ==
  IF Len(label_top) <= Len(label_bottom)
  THEN <<label_top \o ConnectorAfter, label_bottom>>
  ELSE <<label_top, ConnectorBefore \o label_bottom>>

(* ------------------------------------------------- geometry kernel: text *)

Min(a, b) == IF a <= b THEN a ELSE b
Max(a, b) == IF a >= b THEN a ELSE b

\* Advance of a glyph in tenths of the font size.
GlyphAdvance(c) ==
  CASE c = " " -> 2
    [] c = "i" -> 2
    [] c = "t" -> 4
    [] OTHER -> 6

RECURSIVE StripLeft(_)
StripLeft(s) ==
  IF s /= <<>> /\ Head(s) = " " THEN StripLeft(Tail(s)) ELSE s

RECURSIVE StripRight(_)
StripRight(s) ==
  IF s /= <<>> /\ s[Len(s)] = " "
  THEN StripRight(SubSeq(s, 1, Len(s) - 1)) ELSE s

RECURSIVE AdvanceSum(_)
AdvanceSum(s) ==
  IF s = <<>> THEN 0 ELSE GlyphAdvance(Head(s)) + AdvanceSum(Tail(s))

\* Width of the rendered outline: the glyphs' ink, which leading and
\* trailing blanks do not widen.
TextWidth(txt, font_size) ==
  (AdvanceSum(StripRight(StripLeft(txt))) * font_size) \div 10

\* bd.Text(txt, font_size, align=(CENTER, valign)): the outline's bounding
\* rectangle, centred on x = 0, resting on y = 0 (MIN) or hanging from it (MAX).
Text(txt, font_size, valign) ==
  LET w == TextWidth(txt, font_size)
      h == IF w = 0 THEN 0 ELSE font_size
  IN [text |-> txt,
      xlo |-> 0 - (w \div 2), xhi |-> w \div 2,
      ylo |-> IF valign = "MIN" THEN 0 ELSE 0 - h,
      yhi |-> IF valign = "MIN" THEN h ELSE 0]

\* Sketch.translate((dx, dy))
Translate2D(sk, dx, dy) ==
  [sk EXCEPT !.xlo = @ + dx, !.xhi = @ + dx, !.ylo = @ + dy, !.yhi = @ + dy]

\* sketch.bounding_box().size.X
SizeX(sk) == sk.xhi - sk.xlo

(* -------------------------------------------- geometry kernel: primitives *)

\* bd.Cylinder(radius, height, align=(CENTER, CENTER, MIN))
Cylinder(radius, height) ==
  [kind |-> "Cylinder", radius |-> radius, zlo |-> 0, zhi |-> height]

\* bd.Cone(..., align=(CENTER, CENTER, MIN)).rotate(Axis.Y, 90)
\*   .translate((0, 0, z)): the axis runs along +x from x = 0 (bottom_radius)
\* to x = height (top_radius), at height z.
ConeAlongX(bottom_radius, top_radius, height, z) ==
  [kind |-> "Cone", bottom_radius |-> bottom_radius,
   top_radius |-> top_radius, height |-> height, zc |-> z]

\* bd.Box(length, width, height, align=(MIN, CENTER, MIN)).translate((dx,0,0))
Box(length, width, height, dx) ==
  [kind |-> "Box", xlo |-> dx, xhi |-> dx + length,
   ylo |-> 0 - (width \div 2), yhi |-> width \div 2,
   zlo |-> 0, zhi |-> height]

\* box.center().X and box.center().Z
CenterX(box) == (box.xlo + box.xhi) \div 2
CenterZ(box) == (box.zlo + box.zhi) \div 2

\* bd.extrude(bd.Plane.XZ * sketch, amount): the sketch's x is the part's x,
\* its y is the part's z, and the extrusion runs from y = 0 towards -y.
ExtrudeOnXZ(sk, amount) ==
  [kind |-> "Extrusion", text |-> sk.text,
   xlo |-> sk.xlo, xhi |-> sk.xhi, zlo |-> sk.ylo, zhi |-> sk.yhi,
   ylo |-> 0 - amount, yhi |-> 0]

\* solid.rotate(axis=Axis.Z, angle=180)
RotateZ180(solid) ==
  [solid EXCEPT !.xlo = 0 - solid.xhi, !.xhi = 0 - solid.xlo,
                !.ylo = 0 - solid.yhi, !.yhi = 0 - solid.ylo]

\* Whether the point pt = <<x, y, z>> is material of the primitive.
Inside(solid, pt) ==
  LET x == pt[1]
      y == pt[2]
      z == pt[3]
  IN CASE solid.kind = "Cylinder" ->
            /\ x * x + y * y <= solid.radius * solid.radius
            /\ solid.zlo <= z /\ z <= solid.zhi
       [] solid.kind = "Cone" ->
            /\ 0 <= x /\ x <= solid.height
            /\ LET rh == solid.bottom_radius * solid.height
                         + (solid.top_radius - solid.bottom_radius) * x
                   dz == z - solid.zc
               IN solid.height * solid.height * (y * y + dz * dz) <= rh * rh
       [] solid.kind = "Box" ->
            /\ solid.xlo <= x /\ x <= solid.xhi
            /\ solid.ylo <= y /\ y <= solid.yhi
            /\ solid.zlo <= z /\ z <= solid.zhi
       [] solid.kind = "Extrusion" ->
            /\ solid.xlo < solid.xhi
            /\ solid.xlo <= x /\ x <= solid.xhi
            /\ solid.ylo <= y /\ y <= solid.yhi
            /\ solid.zlo <= z /\ z <= solid.zhi

(* ------------------------------------------------------------ make_bushing *)

\* Lines 51-55.
Sleeve(base_spec) ==
  Cylinder(base_spec.bushing_od \div 2, base_spec.bushing_length)

\* Lines 57-62, on the spec's two labels.
EffectiveTexts(base_spec) ==
  LabelLayout(base_spec.text_top, base_spec.text_bottom)

\* Lines 64-68.
Text2dTop(base_spec) ==
  Translate2D(Text(EffectiveTexts(base_spec)[1], base_spec.text_font_size,
                   "MIN"), 0, TextGap)

\* Lines 69-73.
Text2dBottom(base_spec) ==
  Translate2D(Text(EffectiveTexts(base_spec)[2], base_spec.text_font_size,
                   "MAX"), 0, 0 - TextGap)

\* Lines 75-77.
MaxTextWidth(base_spec) ==
  Max(SizeX(Text2dTop(base_spec)), SizeX(Text2dBottom(base_spec)))

\* The flag as long as the spec's nominal flag_length.
FlagLengthNominal(base_spec) == base_spec.flag_length

\* Line 79.
FlagLength(base_spec) == MaxTextWidth(base_spec) + FlagPad

\* Lines 85-87.
StemBottomRadius(base_spec) ==
  Min(base_spec.bushing_od \div 2, base_spec.bushing_length \div 2)

\* Line 98.
StemZ(base_spec) ==
  Min(base_spec.bushing_length \div 2, base_spec.flag_height \div 2)

\* Lines 83-100.
Stem(base_spec) ==
  ConeAlongX(StemBottomRadius(base_spec),
             base_spec.flag_thickness \div 2,
             base_spec.flag_stem_length_radial + base_spec.bushing_od \div 2,
             StemZ(base_spec))

\* The flag body moved by the batch index of the object being built.
FlagBodyBoxAtBatchIndex(base_spec) ==
  Box(FlagLength(base_spec), base_spec.flag_thickness, base_spec.flag_height,
      base_spec.flag_stem_length_radial + base_spec.bushing_od \div 2
        + i * base_spec.bushing_od)

\* Lines 105-116.
FlagBodyBox(base_spec) ==
  Box(FlagLength(base_spec), base_spec.flag_thickness, base_spec.flag_height,
      base_spec.flag_stem_length_radial + base_spec.bushing_od \div 2)

\* The outline moved to the flag body's near face instead of its centre.
FrontSketchAtFlagStart(base_spec, text_2d) ==
  Translate2D(text_2d, FlagBodyBox(base_spec).xlo,
              CenterZ(FlagBodyBox(base_spec)))

\* Lines 121-123: the outline moved to the flag body's centre.
FrontSketch(base_spec, text_2d) ==
  Translate2D(text_2d, CenterX(FlagBodyBox(base_spec)),
              CenterZ(FlagBodyBox(base_spec)))

\* Lines 125-128.
FrontRelief(base_spec, text_2d) ==
  ExtrudeOnXZ(FrontSketch(base_spec, text_2d),
              base_spec.text_thickness + base_spec.flag_thickness \div 2)

\* Lines 132-134.
BackSketch(base_spec, text_2d) ==
  Translate2D(text_2d, 0 - CenterX(FlagBodyBox(base_spec)),
              CenterZ(FlagBodyBox(base_spec)))

\* Lines 136-139.
BackRelief(base_spec, text_2d) ==
  RotateZ180(
    ExtrudeOnXZ(BackSketch(base_spec, text_2d),
                base_spec.text_thickness + base_spec.flag_thickness \div 2))

\* Lines 141-145.
Bore(base_spec) ==
  Cylinder(base_spec.bushing_id \div 2, base_spec.bushing_length)

Add(name, solid) == [op |-> "+", name |-> name, solid |-> solid]
Sub(name, solid) == [op |-> "-", name |-> name, solid |-> solid]

\* make_bushing with the bore subtracted from the sleeve at once, before
\* the stem, the flag and the reliefs are added.
MakeBushingBoreFirst(base_spec) ==
  << Add("sleeve", Sleeve(base_spec)),
     Sub("bore", Bore(base_spec)),
     Add("stem", Stem(base_spec)),
     Add("flag", FlagBodyBox(base_spec)),
     Add("top/front", FrontRelief(base_spec, Text2dTop(base_spec))),
     Add("bottom/front", FrontRelief(base_spec, Text2dBottom(base_spec))),
     Add("top/back", BackRelief(base_spec, Text2dTop(base_spec))),
     Add("bottom/back", BackRelief(base_spec, Text2dBottom(base_spec))) >>

\* make_bushing: the boolean operations applied to p, in the order applied.
MakeBushing(base_spec) ==
  << Add("sleeve", Sleeve(base_spec)),
     Add("stem", Stem(base_spec)),
     Add("flag", FlagBodyBox(base_spec)),
     Add("top/front", FrontRelief(base_spec, Text2dTop(base_spec))),
     Add("bottom/front", FrontRelief(base_spec, Text2dBottom(base_spec))),
     Add("top/back", BackRelief(base_spec, Text2dTop(base_spec))),
     Add("bottom/back", BackRelief(base_spec, Text2dBottom(base_spec))),
     Sub("bore", Bore(base_spec)) >>

\* Whether pt is material of the solid the operations ops evaluate to.
RECURSIVE Material(_, _)
Material(ops, pt) ==
  IF ops = <<>> THEN FALSE
  ELSE LET last == ops[Len(ops)]
           before == Material(SubSeq(ops, 1, Len(ops) - 1), pt)
       IN IF last.op = "+"
          THEN before \/ Inside(last.solid, pt)
          ELSE before /\ ~Inside(last.solid, pt)

\* The kernel refuses a primitive without extent.
KernelAccepts(base_spec) ==
  /\ base_spec.bushing_od \div 2 > 0
  /\ base_spec.bushing_length > 0
  /\ base_spec.bushing_id \div 2 > 0
  /\ base_spec.flag_thickness \div 2 > 0
  /\ base_spec.flag_height > 0
  /\ base_spec.text_font_size > 0
  /\ base_spec.flag_stem_length_radial + base_spec.bushing_od \div 2 > 0
  /\ base_spec.text_thickness + base_spec.flag_thickness \div 2 > 0

\* What the kernel can do with the spec: it raises on a primitive without
\* extent, and may or may not render an outline that has no ink.
KernelOutcomes(base_spec) ==
  IF ~KernelAccepts(base_spec) THEN {"raise"}
  ELSE IF SizeX(Text2dTop(base_spec)) = 0
          \/ SizeX(Text2dBottom(base_spec)) = 0
       THEN {"raise", "return"}
       ELSE {"return"}

\* Runtime types the composed value can have; the last is not a solid.
ResultTypes == {"Part", "ShapeList"}
SolidTypes == {"Part", "Compound", "Solid"}

(* ------------------------------------------------------------------ inputs *)

A1 == <<"A">>
B2 == <<"B", "B">>
Ai == <<"A", "i">>
A3 == <<"A", "A", "A">>

\* Override objects of the batches: the defaults, labelled parts, a length
\* tie, two objects that differ in flag_length only, a short flag, the two
\* invariants violated (by equality, and both at once), a sleeve without
\* length, a missing bushing_length, and a single label.
OverrideSet ==
  { [bushing_length |-> 100],
    [bushing_length |-> 100, text_top |-> A1, text_bottom |-> B2],
    [bushing_length |-> 100, text_top |-> A1, text_bottom |-> B2,
     flag_length |-> 300],
    [bushing_length |-> 100, text_top |-> Ai, text_bottom |-> B2],
    [bushing_length |-> 200, flag_height |-> 40, text_top |-> A3,
     text_bottom |-> <<"i">>],
    [bushing_length |-> 100, bushing_od |-> 32],
    [bushing_length |-> 100, flag_stem_od |-> 64],
    [bushing_length |-> 100, bushing_id |-> 80, flag_stem_od |-> 70],
    [bushing_length |-> 0, text_top |-> A1, text_bottom |-> B2],
    [text_top |-> A1, text_bottom |-> B2],
    [bushing_length |-> 20, text_top |-> A3] }

\* One override object for every combination of these dimensions.
GridOverrides ==
  { [bushing_length |-> l, bushing_od |-> od, bushing_id |-> id,
     flag_stem_od |-> so, flag_thickness |-> ft, flag_height |-> fh,
     text_top |-> lb[1], text_bottom |-> lb[2]] :
      l \in {20, 100, 200}, od \in {40, 64}, id \in {32, 40},
      so \in {35, 64}, ft \in {28, 60}, fh \in {40, 120},
      lb \in {<<A1, B2>>, <<A3, <<"i">>>>} }

\* The batches: every list of at most MaxBatch objects of OverrideSet, and
\* every one-object list of GridOverrides.
BatchInputs ==
  UNION {[1..n -> OverrideSet] : n \in 0..MaxBatch}
    \cup {<<ov>> : ov \in GridOverrides}

(* ------------------------------------------------------ make_many_bushings *)

Init ==
  /\ bushing_list \in BatchInputs
  /\ i = 0
  /\ pc = "loop"
  /\ spec = NoSpec
  /\ part = NoPart
  /\ trace = <<>>
  /\ files = <<>>
  /\ err = NoError
  /\ arg = NoValue
  /\ ret = NoValue

Fail(e) ==
  /\ pc' = "failed"
  /\ err' = e

\* Line 168 inside a try/except that skips the object that fails.
ConstructSkipping ==
  /\ pc = "loop"
  /\ i < Len(bushing_list)
  /\ LET bushing_overrides == bushing_list[i + 1]
         ev == [op |-> "BushingSpec", i |-> i, overrides |-> bushing_overrides]
     IN IF ~BindsAllFields(bushing_overrides)
           \/ PostInit(NewSpec(bushing_overrides)) /= NoError
        THEN /\ i' = i + 1
             /\ pc' = "loop"
             /\ trace' = Append(trace, ev)
             /\ spec' = spec
        ELSE /\ spec' = NewSpec(bushing_overrides)
             /\ pc' = "build"
             /\ trace' = Append(trace, ev)
             /\ i' = i
  /\ UNCHANGED <<bushing_list, part, files, err, arg, ret>>

\* Line 168: spec = BushingSpec(**bushing_overrides).
Construct ==
  /\ pc = "loop"
  /\ i < Len(bushing_list)
  /\ LET bushing_overrides == bushing_list[i + 1]
         ev == [op |-> "BushingSpec", i |-> i, overrides |-> bushing_overrides]
     IN IF ~BindsAllFields(bushing_overrides)
        THEN /\ Fail([kind |-> "TypeError", raised_in |-> "__init__",
                      msg |-> <<>>])
             /\ trace' = Append(trace, ev)
             /\ spec' = spec
        ELSE IF PostInit(NewSpec(bushing_overrides)) /= NoError
        THEN /\ Fail(PostInit(NewSpec(bushing_overrides)))
             /\ trace' = Append(trace, ev)
             /\ spec' = spec
        ELSE /\ spec' = NewSpec(bushing_overrides)
             /\ pc' = "build"
             /\ err' = err
             /\ trace' = Append(trace, ev)
  /\ UNCHANGED <<bushing_list, i, part, files, arg, ret>>

\* Line 170 with make_bushing storing the computed flag length in its spec.
BuildStoringFlagLength ==
  /\ pc = "build"
  /\ \E outcome \in KernelOutcomes(spec) :
       IF outcome = "raise"
       THEN /\ Fail([kind |-> "KernelError", raised_in |-> "make_bushing",
                     msg |-> <<>>])
            /\ trace' = Append(trace, [op |-> "make_bushing", i |-> i,
                                       spec |-> spec, result |-> NoPart])
            /\ part' = part
            /\ spec' = spec
       ELSE \E ty \in ResultTypes :
              /\ part' = [ops |-> MakeBushing(spec),
                          offset |-> <<0, i * spec.bushing_od + BatchGap, 0>>,
                          type |-> ty]
              /\ trace' = Append(trace, [op |-> "make_bushing", i |-> i,
                                         spec |-> spec,
                                         result |-> MakeBushing(spec)])
              /\ pc' = "show"
              /\ err' = err
              /\ spec' = [spec EXCEPT !.flag_length = FlagLength(spec)]
  /\ UNCHANGED <<bushing_list, i, files, arg, ret>>

\* Line 170: part = make_bushing(spec).translate((0, i * spec.bushing_od + 5, 0)).
Build ==
  /\ pc = "build"
  /\ \E outcome \in KernelOutcomes(spec) :
       IF outcome = "raise"
       THEN /\ Fail([kind |-> "KernelError", raised_in |-> "make_bushing",
                     msg |-> <<>>])
            /\ trace' = Append(trace, [op |-> "make_bushing", i |-> i,
                                       spec |-> spec, result |-> NoPart])
            /\ part' = part
       ELSE \E ty \in ResultTypes :
              /\ part' = [ops |-> MakeBushing(spec),
                          offset |-> <<0, i * spec.bushing_od + BatchGap, 0>>,
                          type |-> ty]
              /\ trace' = Append(trace, [op |-> "make_bushing", i |-> i,
                                         spec |-> spec,
                                         result |-> MakeBushing(spec)])
              /\ pc' = "show"
              /\ err' = err
  /\ UNCHANGED <<bushing_list, i, spec, files, arg, ret>>

\* Line 171: show(part).
Show ==
  /\ pc = "show"
  /\ trace' = Append(trace, [op |-> "show", i |-> i, part |-> part])
  /\ pc' = "assert"
  /\ UNCHANGED <<bushing_list, i, spec, part, files, err, arg, ret>>

\* Lines 173-175 with the assert not enforced: the loop goes on to export.
CheckNotEnforced ==
  /\ pc = "assert"
  /\ pc' = "export"
  /\ err' = err
  /\ trace' = Append(trace, [op |-> "assert", i |-> i,
                             ok |-> part.type \in SolidTypes])
  /\ UNCHANGED <<bushing_list, i, spec, part, files, arg, ret>>

\* Lines 173-175: assert isinstance(part, bd.Part | bd.Compound | bd.Solid).
Check ==
  /\ pc = "assert"
  /\ IF part.type \in SolidTypes
     THEN /\ pc' = "export"
          /\ err' = err
          /\ trace' = Append(trace, [op |-> "assert", i |-> i, ok |-> TRUE])
     ELSE /\ Fail([kind |-> "AssertionError",
                   raised_in |-> "make_many_bushings",
                   msg |-> <<"part is not a Part", part.type>>])
          /\ trace' = Append(trace, [op |-> "assert", i |-> i, ok |-> FALSE])
  /\ UNCHANGED <<bushing_list, i, spec, part, files, arg, ret>>

\* Lines 177-185: bushing_{i}, and the label pair when the override object
\* has both labels.
FileStem(index, bushing_overrides) ==
  [index |-> index,
   labels |-> IF "text_top" \in DOMAIN bushing_overrides
                 /\ "text_bottom" \in DOMAIN bushing_overrides
              THEN <<bushing_overrides.text_top,
                     bushing_overrides.text_bottom>>
              ELSE <<>>]

\* Lines 177-188: the file is written, and the loop goes to the next object.
Export ==
  /\ pc = "export"
  /\ files' = Append(files, [stem |-> FileStem(i, bushing_list[i + 1]),
                             part |-> part])
  /\ trace' = Append(trace, [op |-> "export_stl", i |-> i])
  /\ i' = i + 1
  /\ pc' = "loop"
  /\ UNCHANGED <<bushing_list, spec, part, err, arg, ret>>

\* Line 190: return part; part is unbound when the list was empty.
Return ==
  /\ pc = "loop"
  /\ i = Len(bushing_list)
  /\ IF part = NoPart
     THEN Fail([kind |-> "UnboundLocalError",
                raised_in |-> "make_many_bushings", msg |-> <<"part">>])
     ELSE /\ pc' = "done"
          /\ err' = err
  /\ UNCHANGED <<bushing_list, i, spec, part, trace, files, arg, ret>>

Next == Construct \/ Build \/ Show \/ Check \/ Export \/ Return

Spec == Init /\ [][Next]_vars

(* ---------------------------------------------- label layout, on its own *)

Alphabet == {"A", "i", " "}

Labels == UNION {[1..n -> Alphabet] : n \in 0..MaxLabelLen}

LayoutInit ==
  /\ arg \in Labels \X Labels
  /\ ret = NoValue
  /\ pc = "layout"
  /\ bushing_list = <<>>
  /\ i = 0
  /\ spec = NoSpec
  /\ part = NoPart
  /\ trace = <<>>
  /\ files = <<>>
  /\ err = NoError

\* Lines 57-62 applied to the pair of labels.
ApplyLayout ==
  /\ pc = "layout"
  /\ ret' = LabelLayout(arg[1], arg[2])
  /\ pc' = "laid out"
  /\ UNCHANGED <<bushing_list, i, spec, part, trace, files, err, arg>>

LayoutNext == ApplyLayout

LayoutSpec == LayoutInit /\ [][LayoutNext]_vars

(* ------------------------------------------------------------- properties *)

\* The value the constructor is given for field f: the keyword's, else the
\* field's default.
Given(overrides, f) ==
  IF f \in DOMAIN overrides THEN overrides[f] ELSE Defaults[f]

\* Whether the k-th event of the trace is a constructor call that raised.
ConstructionFailed(k) ==
  /\ trace[k].op = "BushingSpec"
  /\ k = Len(trace)
  /\ pc = "failed"

\* C1: a constructor call that is given every field succeeds, with every
\* field as given, exactly when bushing_od > bushing_id and
\* flag_stem_od < bushing_od; otherwise it raises the assertion of
\* __post_init__ whose message carries the offending values, and
\* make_bushing is never entered for that object.
C1_ConstructionChecked ==
  \A k \in 1..Len(trace) :
    (trace[k].op = "BushingSpec" /\ BindsAllFields(trace[k].overrides)) =>
      LET ov == trace[k].overrides
          od == Given(ov, "bushing_od")
          id == Given(ov, "bushing_id")
          so == Given(ov, "flag_stem_od")
      IN /\ ~ConstructionFailed(k) <=> (od > id /\ so < od)
         /\ (~ConstructionFailed(k) /\ k = Len(trace)) =>
              /\ pc = "build"
              /\ DOMAIN spec = FieldNames
              /\ \A f \in FieldNames : spec[f] = Given(ov, f)
         /\ ConstructionFailed(k) =>
              /\ err.kind = "AssertionError"
              /\ err.raised_in = "__post_init__"
              /\ ~(od > id) => err.msg = <<"OD", od, "<", "ID", id>>
              /\ od > id =>
                   err.msg = <<"Flag stem OD", so, ">", "Bushing OD", od>>
              /\ \A m \in 1..Len(trace) :
                   trace[m].op = "make_bushing" => trace[m].i /= trace[k].i

\* A second object rejected for flag_stem_od = bushing_od, after a first
\* one was built and exported.
C1_Witness ==
  /\ pc = "failed"
  /\ err.raised_in = "__post_init__"
  /\ err.msg[1] = "Flag stem OD"
  /\ err.msg[2] = err.msg[5]
  /\ Len(files) = 1

\* C2: the layout of (label_top, label_bottom) is (label_top + " to",
\* label_bottom) when len(label_top) <= len(label_bottom) and
\* (label_top, "to " + label_bottom) otherwise; exactly one of the two
\* strings differs from its input, and on a tie it is the top one.
C2_LabelLayout ==
  ret /= NoValue =>
    LET label_top == arg[1]
        label_bottom == arg[2]
    IN /\ Len(label_top) <= Len(label_bottom) =>
            ret = <<label_top \o <<" ", "t", "o">>, label_bottom>>
       /\ Len(label_top) > Len(label_bottom) =>
            ret = <<label_top, <<"t", "o", " ">> \o label_bottom>>
       /\ (ret[1] /= label_top) /= (ret[2] /= label_bottom)
       /\ Len(label_top) = Len(label_bottom) => ret[1] /= label_top

\* The layout of two empty labels: a tie.
C2_Witness ==
  /\ ret /= NoValue
  /\ arg = <<<<>>, <<>>>>
  /\ ret[2] = <<>>

\* C3: the objects are processed in list order; the files written are those
\* of indices 0, 1, ... in this order, one per object; a run that returns
\* has written one file per object; a run that failed at object i has
\* written exactly the files 0..i-1 and has constructed, built, shown,
\* checked or exported nothing of a later object; no object is tried twice.
C3_BatchStopsAtFirstFailure ==
  /\ \A k \in 1..Len(files) : files[k].stem.index = k - 1
  /\ Len(files) <= Len(bushing_list)
  /\ pc = "done" => Len(files) = Len(bushing_list)
  /\ pc = "failed" =>
       /\ Len(files) = i
       /\ \A k \in 1..Len(trace) : trace[k].i <= i
  /\ \A a \in 1..Len(trace) : \A b \in 1..Len(trace) :
       /\ a < b => trace[a].i <= trace[b].i
       /\ (a < b /\ trace[a].op = trace[b].op) => trace[a].i < trace[b].i
  /\ \A b \in 1..Len(trace) :
       trace[b].i > 0 =>
         \E a \in 1..(b - 1) :
           trace[a].op = "export_stl" /\ trace[a].i = trace[b].i - 1

\* The first of two objects failed its final check: nothing was written and
\* the second object was never constructed.
C3_Witness ==
  /\ pc = "failed"
  /\ i = 0
  /\ Len(bushing_list) = 2
  /\ err.raised_in = "make_many_bushings"
  /\ err.kind = "AssertionError"
  /\ files = <<>>

\* Points at which the composed solid is sampled.
ProbePoints ==
  {<<x, y, z>> : x \in {-30, -10, 0, 10, 30, 100, 150},
                 y \in {-10, 0, 10},
                 z \in {-10, 10, 50, 90, 110, 190, 210}}

\* The inside of the bore cylinder of the spec sp.
InBoreCylinder(pt, sp) ==
  /\ 4 * (pt[1] * pt[1] + pt[2] * pt[2]) < sp.bushing_id * sp.bushing_id
  /\ 0 < pt[3] /\ pt[3] < sp.bushing_length

\* Whether make_bushing has just returned (to line 170).
JustBuilt == pc = "show"

\* C4: the operations of the returned part are, in this order: sleeve,
\* union stem, union flag body, union the reliefs top/front, bottom/front,
\* top/back, bottom/back, and last the subtraction of the bore; no sampled
\* point inside the bore cylinder is material of the part.
C4_BoreSubtractedLast ==
  JustBuilt =>
    /\ [k \in 1..Len(part.ops) |-> <<part.ops[k].op, part.ops[k].name>>]
         = << <<"+", "sleeve">>, <<"+", "stem">>, <<"+", "flag">>,
              <<"+", "top/front">>, <<"+", "bottom/front">>,
              <<"+", "top/back">>, <<"+", "bottom/back">>,
              <<"-", "bore">> >>
    /\ part.ops[1].solid.kind = "Cylinder"
    /\ part.ops[8].solid.kind = "Cylinder"
    /\ 2 * part.ops[8].solid.radius = spec.bushing_id
    /\ part.ops[8].solid.zlo = 0
    /\ part.ops[8].solid.zhi = spec.bushing_length
    /\ \A pt \in ProbePoints :
         InBoreCylinder(pt, spec) => ~Material(part.ops, pt)

\* A built part whose stem, before the subtraction, had material at a
\* sampled point inside the bore.
C4_Witness ==
  /\ JustBuilt
  /\ \E pt \in ProbePoints :
       /\ InBoreCylinder(pt, spec)
       /\ Inside(part.ops[2].solid, pt)
       /\ ~Material(part.ops, pt)

\* Whether [zc - r, zc + r] lies within [0, bushing_length] and within
\* [0, flag_height] of the spec sp.
StemWithinSleeveAndFlag(zc, r, sp) ==
  /\ 0 <= zc - r
  /\ zc + r <= sp.bushing_length
  /\ zc + r <= sp.flag_height

\* C5: for every spec that is built, the stem axis is at
\* zc = min(bushing_length/2, flag_height/2), its radius at the sleeve is
\* r = min(bushing_od/2, bushing_length/2), and [zc - r, zc + r] lies within
\* [0, bushing_length] and within [0, flag_height].
C5_StemNeverOvershoots ==
  JustBuilt =>
    LET stem == part.ops[2].solid
    IN /\ 2 * stem.zc = Min(spec.bushing_length, spec.flag_height)
       /\ 2 * stem.bottom_radius = Min(spec.bushing_od, spec.bushing_length)
       /\ StemWithinSleeveAndFlag(stem.zc, stem.bottom_radius, spec)

\* What the code does instead: with zc and r as above, [zc - r, zc + r]
\* lies within [0, bushing_length] and within [0, flag_height] exactly when
\* min(bushing_od, bushing_length) <= flag_height.
StemWithinIffFlagTallEnough ==
  JustBuilt =>
    LET stem == part.ops[2].solid
    IN StemWithinSleeveAndFlag(stem.zc, stem.bottom_radius, spec)
         <=> Min(spec.bushing_od, spec.bushing_length) <= spec.flag_height

\* The indices of the trace's calls of make_bushing that returned a part.
Builds ==
  {k \in 1..Len(trace) :
     trace[k].op = "make_bushing" /\ trace[k].result /= NoPart}

\* Length of the flag box, and widths of the two front reliefs, of a result.
BoxLength(ops) == ops[3].solid.xhi - ops[3].solid.xlo
TopWidth(ops) == ops[4].solid.xhi - ops[4].solid.xlo
BottomWidth(ops) == ops[5].solid.xhi - ops[5].solid.xlo

\* Whether two specs agree on every field but flag_length.
SameButFlagLength(s, t) ==
  \A f \in FieldNames \ {"flag_length"} : s[f] = t[f]

\* C6: the flag box of every built part is as long as the wider of its two
\* rendered effective labels plus 2; between two builds it is non-decreasing
\* in that width, and the same when the specs differ in flag_length only.
C6_FlagLengthFromText ==
  /\ \A k \in Builds :
       LET ops == trace[k].result
           sp == trace[k].spec
       IN /\ ops[3].solid.kind = "Box"
          /\ TopWidth(ops) = TextWidth(ops[4].solid.text, sp.text_font_size)
          /\ BottomWidth(ops) = TextWidth(ops[5].solid.text, sp.text_font_size)
          /\ BoxLength(ops) = Max(TopWidth(ops), BottomWidth(ops)) + 20
  /\ \A a \in Builds : \A b \in Builds :
       LET opa == trace[a].result
           opb == trace[b].result
       IN /\ Max(TopWidth(opa), BottomWidth(opa))
               <= Max(TopWidth(opb), BottomWidth(opb))
               => BoxLength(opa) <= BoxLength(opb)
          /\ SameButFlagLength(trace[a].spec, trace[b].spec)
               => BoxLength(opa) = BoxLength(opb)

\* Two parts built from specs that differ in flag_length, and in nothing else.
C6_Witness ==
  \E a \in Builds : \E b \in Builds :
    /\ trace[a].spec.flag_length /= trace[b].spec.flag_length
    /\ SameButFlagLength(trace[a].spec, trace[b].spec)
    /\ BoxLength(trace[a].result) /= trace[a].spec.flag_length
    /\ BoxLength(trace[b].result) /= trace[b].spec.flag_length

\* Whether every relief is centred on the flag box along x.
ReliefsCentred(ops) ==
  \A k \in 4..7 :
    ops[k].solid.xlo + ops[k].solid.xhi = ops[3].solid.xlo + ops[3].solid.xhi

\* Whether the wider front relief ends pad short of each end of the box.
WidestPadded(ops, pad) ==
  \A k \in {4, 5} :
    (ops[k].solid.xhi - ops[k].solid.xlo
       = Max(TopWidth(ops), BottomWidth(ops))) =>
      /\ ops[k].solid.xlo - ops[3].solid.xlo = pad
      /\ ops[3].solid.xhi - ops[k].solid.xhi = pad

\* C7 as claimed: the reliefs are centred on the flag box along its length
\* and the wider label ends 2 short of each end of the box.
C7_PaddingTwoEachSide ==
  JustBuilt => ReliefsCentred(part.ops) /\ WidestPadded(part.ops, 20)

\* C7: the reliefs are centred on the flag box along its length and the
\* wider label ends 1 short of each end of the box: 2 over both ends.
C7_PaddingOneEachSide ==
  JustBuilt => ReliefsCentred(part.ops) /\ WidestPadded(part.ops, 10)

\* A built part whose top label is rendered wider than its bottom label.
C7_Witness ==
  /\ JustBuilt
  /\ TopWidth(part.ops) > BottomWidth(part.ops)
  /\ BottomWidth(part.ops) > 0
  /\ part.ops[4].solid.xlo - part.ops[3].solid.xlo = 10

\* Whether the check of object number n has passed before the k-th event.
CheckedBefore(k, n) ==
  \E a \in 1..(k - 1) :
    trace[a].op = "assert" /\ trace[a].i = n /\ trace[a].ok

\* C8 as claimed: every part that is displayed or exported has passed the
\* final check before.
C8_CheckedBeforeShownOrExported ==
  \A k \in 1..Len(trace) :
    trace[k].op \in {"show", "export_stl"} => CheckedBefore(k, trace[k].i)

\* C8: the final check of a part runs after its bore subtraction and after
\* the part was displayed, and before it is exported; a failing check is
\* fatal; every file written holds a part that passed the check.
C8_CheckedBeforeExported ==
  /\ \A k \in 1..Len(trace) :
       /\ trace[k].op = "export_stl" => CheckedBefore(k, trace[k].i)
       /\ trace[k].op = "assert" =>
            /\ \E b \in 1..(k - 1) :
                 /\ trace[b].op = "make_bushing"
                 /\ trace[b].i = trace[k].i
                 /\ trace[b].result /= NoPart
                 /\ trace[b].result[Len(trace[b].result)].op = "-"
                 /\ trace[b].result[Len(trace[b].result)].name = "bore"
            /\ \E s \in 1..(k - 1) :
                 trace[s].op = "show" /\ trace[s].i = trace[k].i
       /\ (trace[k].op = "assert" /\ ~trace[k].ok) =>
            /\ k = Len(trace)
            /\ pc = "failed"
            /\ err.kind = "AssertionError"
            /\ err.raised_in = "make_many_bushings"
  /\ \A k \in 1..Len(files) : files[k].part.type \in SolidTypes

\* The second part failed the check after it was displayed; only the first
\* part's file was written.
C8_Witness ==
  /\ pc = "failed"
  /\ Len(trace) > 1
  /\ trace[Len(trace)].op = "assert"
  /\ ~trace[Len(trace)].ok
  /\ trace[Len(trace) - 1].op = "show"
  /\ Len(files) = 1

\* Whether the spec s satisfies the two invariants of __post_init__.
SatisfiesInvariants(s) ==
  /\ s.bushing_od > s.bushing_id
  /\ s.flag_stem_od < s.bushing_od

\* Whether every field of s is what the constructor was given for object n.
AsConstructed(s, n) ==
  /\ DOMAIN s = FieldNames
  /\ \A f \in FieldNames : s[f] = Given(bushing_list[n + 1], f)

\* The object whose BushingSpec is bound to spec: the last one constructed.
LastConstructed ==
  IF pc \in {"loop", "done"}
     \/ (pc = "failed" /\ trace[Len(trace)].op = "BushingSpec")
  THEN i - 1 ELSE i

\* C9: the BushingSpec that exists has, in every state, the fields its
\* constructor was given, and satisfies bushing_od > bushing_id and
\* flag_stem_od < bushing_od; so does every spec make_bushing receives.
C9_SpecImmutableAndValid ==
  /\ spec /= NoSpec =>
       /\ AsConstructed(spec, LastConstructed)
       /\ SatisfiesInvariants(spec)
  /\ \A k \in 1..Len(trace) :
       trace[k].op = "make_bushing" =>
         /\ AsConstructed(trace[k].spec, trace[k].i)
         /\ SatisfiesInvariants(trace[k].spec)

\* The second spec of a batch, with a nominal flag_length that the layout
\* superseded, after it was built, displayed and checked.
C9_Witness ==
  /\ pc = "export"
  /\ i = 1
  /\ spec.flag_length /= BoxLength(part.ops)
  /\ SatisfiesInvariants(spec)

====
